---- MODULE Spec2Model ----
(***************************************************************************)
(* Model of keepassc's curses text editor (src/keepassc/editor.py).        *)
(*                                                                         *)
(* A string is a sequence of one-character strings; a row is a string; a   *)
(* logical line is a sequence of rows; self.text is a sequence of logical  *)
(* lines.  Indices stored in the editor (cursor, idx_line, idx_row) keep   *)
(* Python's 0-based values; sequences are accessed at index + 1.           *)
(***************************************************************************)
EXTENDS Integers, Sequences, FiniteSets, TLC

(***************************************************************************)
(* Bounds of the model.                                                    *)
(***************************************************************************)
\* Character insertion is offered while the document holds fewer characters.
MaxChars == 3
\* A tab is offered while the document holds fewer characters.
MaxTabChars == 1
\* Longest initial text of the construct-and-save specification.
MaxInitLen == 4

(***************************************************************************)
(* Python str / list helpers.                                              *)
(***************************************************************************)
SP == " "
NL == "\n"

\* str.isspace() for the characters of the model's alphabet.
IsSpace(c) == c \in {SP, NL}

Min(a, b) == IF a < b THEN a ELSE b
Max(a, b) == IF a > b THEN a ELSE b

\* s[:k] for k >= 0.
Take(s, k) == SubSeq(s, 1, Min(k, Len(s)))
\* s[k:] for k >= 0.
Drop(s, k) == SubSeq(s, Min(k, Len(s)) + 1, Len(s))

\* " " * n
Spaces(n) == [i \in 1..n |-> SP]

\* sep.join(parts) for a sequence of strings.
RECURSIVE Join(_, _)
Join(parts, sep) ==
    IF parts = <<>> THEN <<>>
    ELSE IF Len(parts) = 1 THEN parts[1]
    ELSE parts[1] \o sep \o Join(Tail(parts), sep)

\* s.rstrip(): s without its trailing whitespace.
RECURSIVE RStrip(_)
RStrip(s) ==
    IF s = <<>> THEN s
    ELSE IF IsSpace(s[Len(s)]) THEN RStrip(SubSeq(s, 1, Len(s) - 1))
    ELSE s

\* s.endswith(w) and s.startswith(w).
EndsWith(s, w) == Len(w) <= Len(s) /\ SubSeq(s, Len(s) - Len(w) + 1, Len(s)) = w
StartsWith(s, w) == Len(w) <= Len(s) /\ SubSeq(s, 1, Len(w)) = w

\* s.split(' ')[-1]: what follows the last space of s.
RECURSIVE SplitLast(_)
SplitLast(s) ==
    IF s = <<>> THEN <<>>
    ELSE IF s[Len(s)] = SP THEN <<>>
    ELSE SplitLast(SubSeq(s, 1, Len(s) - 1)) \o <<s[Len(s)]>>

\* s.split(' ')[0]: what precedes the first space of s.
RECURSIVE SplitFirst(_)
SplitFirst(s) ==
    IF s = <<>> THEN <<>>
    ELSE IF s[1] = SP THEN <<>>
    ELSE <<s[1]>> \o SplitFirst(Tail(s))

\* Python list index: i names an element of a list of length n.
IdxOk(i, n) == -n <= i /\ i < n
\* The 1-based position Python index i names in a list of length n.
Pos(i, n) == IF i < 0 THEN n + i + 1 ELSE i + 1

\* list.insert(i, c) for i >= 0: beyond the end it appends.
ListInsert(s, i, c) == Take(s, i) \o <<c>> \o Drop(s, i)
\* del s[i] for a valid index i.
ListDel(s, i) == SubSeq(s, 1, Pos(i, Len(s)) - 1) \o SubSeq(s, Pos(i, Len(s)) + 1, Len(s))

(***************************************************************************)
(* textwrap.wrap(text, width) with the default TextWrapper options, for    *)
(* text without tabs and hyphens.                                          *)
(***************************************************************************)
\* TextWrapper._munge_whitespace: every whitespace character becomes a space.
Munge(s) == [i \in 1..Len(s) |-> IF IsSpace(s[i]) THEN SP ELSE s[i]]

\* TextWrapper._split: maximal runs of spaces and of non-spaces, in order.
RECURSIVE Split(_)
Split(s) ==
    IF s = <<>> THEN <<>>
    ELSE LET rest == Split(Tail(s))
         IN  IF rest # <<>> /\ (rest[1][1] = SP) = (s[1] = SP)
             THEN <<(<<s[1]>> \o rest[1])>> \o Tail(rest)
             ELSE <<(<<s[1]>>)>> \o rest

\* The inner loop of _wrap_chunks: chunks are moved to the current line
\* while they fit.  Returns the number of chunks taken.
RECURSIVE FillCount(_, _, _)
FillCount(chunks, width, cur_len) ==
    IF chunks # <<>> /\ cur_len + Len(chunks[1]) <= width
    THEN 1 + FillCount(Tail(chunks), width, cur_len + Len(chunks[1]))
    ELSE 0

RECURSIVE ChunksLen(_)
ChunksLen(chunks) == IF chunks = <<>> THEN 0 ELSE Len(chunks[1]) + ChunksLen(Tail(chunks))

IsBlank(chunk) == \A i \in 1..Len(chunk) : IsSpace(chunk[i])

\* A line of chunks without the whitespace chunk that ends it.
DropBlankEnd(cur) ==
    IF cur # <<>> /\ IsBlank(cur[Len(cur)]) THEN SubSeq(cur, 1, Len(cur) - 1) ELSE cur

\* lines.append("".join(cur)) if cur is not empty.
EmitLine(lines, cur) == IF cur # <<>> THEN Append(lines, Join(cur, <<>>)) ELSE lines

\* TextWrapper._wrap_chunks, one line per recursion, width >= 1:
\*   WrapChunks  a whitespace chunk that would start a line is dropped, except
\*               at the very beginning of the text;
\*   WrapFill    the chunks that fit are moved to the current line cur;
\*   WrapLong    _handle_long_word with break_long_words: a chunk longer than
\*               the width fills what is left of the line;
\*   WrapEmit    a whitespace chunk that ends the line is dropped and the line
\*               is appended to lines.
RECURSIVE WrapChunks(_, _, _)
RECURSIVE WrapFill(_, _, _)
RECURSIVE WrapLong(_, _, _, _)
RECURSIVE WrapEmit(_, _, _, _)
WrapChunks(chunks, width, lines) ==
    IF chunks = <<>> THEN lines
    ELSE IF IsBlank(chunks[1]) /\ lines # <<>> THEN WrapFill(Tail(chunks), width, lines)
    ELSE WrapFill(chunks, width, lines)

WrapFill(chunks, width, lines) ==
    WrapLong(SubSeq(chunks, 1, FillCount(chunks, width, 0)),
             SubSeq(chunks, FillCount(chunks, width, 0) + 1, Len(chunks)), width, lines)

WrapLong(cur, chunks, width, lines) ==
    IF chunks # <<>> /\ Len(chunks[1]) > width
    THEN WrapEmit(Append(cur, Take(chunks[1], width - ChunksLen(cur))),
                  <<Drop(chunks[1], width - ChunksLen(cur))>> \o Tail(chunks), width, lines)
    ELSE WrapEmit(cur, chunks, width, lines)

WrapEmit(cur, chunks, width, lines) ==
    WrapChunks(chunks, width, EmitLine(lines, DropBlankEnd(cur)))

\* textwrap.wrap(s, width), width >= 1.
Wrap(s, width) == WrapChunks(Split(Munge(s)), width, <<>>)

\* s[a:b], Python's slice of a list, for any integers a and b.
PySlice(s, a, b) ==
    LET n == Len(s)
        lo == IF a < 0 THEN Max(0, n + a) ELSE Min(a, n)
        hi == IF b < 0 THEN Max(0, n + b) ELSE Min(b, n)
    IN  SubSeq(s, lo + 1, hi)

\* str.splitlines(True): the lines of s, each keeping its line ending.
RECURSIVE SplitLines(_, _)
SplitLines(s, cur) ==
    IF s = <<>> THEN (IF cur = <<>> THEN <<>> ELSE <<cur>>)
    ELSE IF s[1] = NL THEN <<Append(cur, NL)>> \o SplitLines(Tail(s), <<>>)
    ELSE SplitLines(Tail(s), Append(cur, s[1]))

(***************************************************************************)
(* The Editor object.  A record holds the attributes of self that the      *)
(* editing code reads or writes, plus                                      *)
(*   text_tag  what self.text is: "list", "False" (quit_nosave) or "-1"    *)
(*             (close);  text keeps the last list value;                   *)
(*   boxscr    whether the attribute self.boxscr exists (box or title);    *)
(*   ret       the value the key handler returned ("None", "False", "-1"); *)
(*   exc       the exception raised and not caught so far ("" for none).   *)
(***************************************************************************)
\* self.x_offset: set to 0 in win_init and never changed.
x_offset == 0

Raise(e, name) == [e EXCEPT !.exc = name]

\* The (idx_line, idx_row, row) entries buffer_set collects from self.text.
BufferEntries(text) ==
    LET F[i \in 0..Len(text)] ==
            IF i = 0 THEN <<>>
            ELSE F[i - 1] \o [r \in 1..Len(text[i]) |-> <<i - 1, r - 1, text[i][r]>>]
    IN  F[Len(text)]

MaxLen(entries) ==
    LET F[i \in 0..Len(entries)] ==
            IF i = 0 THEN 0 ELSE Max(F[i - 1], Len(entries[i][3]))
    IN  F[Len(entries)]

\* buffer_set() from line 179 on, rows being the entries collected from
\* self.text: an empty buffer_list becomes [[0, 0, ""]].
buffer_set_idx(e, rows, bl) ==
    IF ~IdxOk(e.cur_pos_y + e.y_offset, Len(bl))
    THEN Raise([e EXCEPT !.max_cols = IF rows = <<>> THEN e.win_size_x ELSE MaxLen(rows),
                         !.num_rows = Len(rows),
                         !.buffer_idx_y = e.cur_pos_y + e.y_offset,
                         !.buffer_list = bl], "IndexError")
    ELSE [e EXCEPT !.max_cols = IF rows = <<>> THEN e.win_size_x ELSE MaxLen(rows),
                   !.num_rows = Len(rows),
                   !.buffer_idx_y = e.cur_pos_y + e.y_offset,
                   !.buffer_list = bl,
                   !.buf_length = Len(bl[Pos(e.cur_pos_y + e.y_offset, Len(bl))][3]),
                   !.buffer_idx_x = e.cur_pos_x + x_offset]

buffer_set_rows(e, rows) ==
    buffer_set_idx(e, rows, IF rows = <<>> THEN << <<0, 0, <<>> >> >> ELSE rows)

buffer_set(e) ==
    IF e.exc # "" THEN e
    ELSE IF e.text_tag # "list" THEN Raise(e, "TypeError")
    ELSE buffer_set_rows(e, BufferEntries(e.text))

\* end_of_line_check() after its buffer_set().
end_of_line_clamp(e) ==
    IF e.exc = "" /\ e.cur_pos_x > e.buf_length
    THEN [e EXCEPT !.cur_pos_x = e.buf_length]
    ELSE e

end_of_line_check(e) ==
    IF e.exc # "" THEN e ELSE end_of_line_clamp(buffer_set(e))

up(e) ==
    IF e.exc # "" THEN e
    ELSE IF e.cur_pos_y > 0
    THEN end_of_line_check([e EXCEPT !.cur_pos_y = e.cur_pos_y - 1])
    ELSE end_of_line_check([e EXCEPT !.y_offset = Max(0, e.y_offset - 1)])

down(e) ==
    IF e.exc # "" THEN e
    ELSE IF e.cur_pos_y < e.win_size_y - 1 /\ e.buffer_idx_y < e.num_rows - 1
    THEN end_of_line_check([e EXCEPT !.cur_pos_y = e.cur_pos_y + 1])
    ELSE IF e.buffer_idx_y = e.num_rows - 1 THEN e
    ELSE end_of_line_check(
            [e EXCEPT !.y_offset = Min(e.num_rows - e.win_size_y, e.y_offset + 1)])

\* left() after its up(): the cursor goes to max_cols, end_of_line_check.
left_end(e) ==
    IF e.exc # "" THEN e
    ELSE end_of_line_check([e EXCEPT !.cur_pos_x = e.max_cols])

left(e) ==
    IF e.exc # "" THEN e
    ELSE IF e.cur_pos_x > 0 THEN [e EXCEPT !.cur_pos_x = e.cur_pos_x - 1]
    ELSE IF e.cur_pos_y > 0 THEN left_end(up(e))
    ELSE e

right(e) ==
    IF e.exc # "" THEN e
    ELSE IF e.cur_pos_x < e.buf_length THEN [e EXCEPT !.cur_pos_x = e.cur_pos_x + 1]
    ELSE IF e.buffer_idx_y < e.num_rows - 1 THEN down([e EXCEPT !.cur_pos_x = 0])
    ELSE e

end(e) == IF e.exc # "" THEN e ELSE [e EXCEPT !.cur_pos_x = e.buf_length]

home(e) == IF e.exc # "" THEN e ELSE [e EXCEPT !.cur_pos_x = 0]

page_up(e) ==
    IF e.exc # "" THEN e
    ELSE end_of_line_check([e EXCEPT !.y_offset = Max(0, e.y_offset - e.win_size_y)])

page_down(e) ==
    IF e.exc # "" THEN e
    ELSE end_of_line_check(
            [e EXCEPT !.y_offset =
                Max(0, Min(e.num_rows - e.win_size_y - 1, e.y_offset + e.win_size_y))])

\* text[:self.buffer_idx_x].split(' ')[idx], idx = -1 forward and 0 otherwise.
get_cur_word(e, text, forward) ==
    IF forward THEN SplitLast(Take(text, e.buffer_idx_x))
    ELSE SplitFirst(Take(text, e.buffer_idx_x))

\* self.text[ln][r] can be read: self.text is a list and both indices exist.
RowOk(e, ln, r) ==
    /\ e.text_tag = "list"
    /\ ln < Len(e.text)
    /\ r < Len(e.text[ln + 1])

\* The exception reading or writing self.text[ln][r] raises when it cannot.
RowExc(e) == IF e.text_tag # "list" THEN "TypeError" ELSE "IndexError"

\* self.text[ln][r] = row
SetRow(e, ln, r, row) ==
    IF ~RowOk(e, ln, r) THEN Raise(e, RowExc(e))
    ELSE [e EXCEPT !.text[ln + 1][r + 1] = row]

\* a or b, for lists.
Or(a, b) == IF a = <<>> THEN b ELSE a

\* self.text[ln] = wrap(" ".join(self.text[ln]), self.win_size_x - 1) or [""]
Rewrap(e, ln) ==
    IF e.win_size_x - 1 <= 0 THEN Raise(e, "ValueError")
    ELSE [e EXCEPT !.text[ln + 1] =
             Or(Wrap(Join(e.text[ln + 1], <<SP>>), e.win_size_x - 1), << <<>> >>)]

\* self.buffer_list[i][2] for an index i that exists.
BufferRowAt(e, i) == e.buffer_list[Pos(i, Len(e.buffer_list))][3]

word_wrap_jump(e, cur_word, cur_word_wrapd) ==
    IF e.exc # "" THEN e
    ELSE IF cur_word # cur_word_wrapd /\ cur_word # <<>>
    THEN IF ~IdxOk(e.buffer_idx_y - 1, Len(e.buffer_list)) THEN Raise(e, "IndexError")
         ELSE IF \/ EndsWith(BufferRowAt(e, e.buffer_idx_y - 1), cur_word)
                 \/ EndsWith(BufferRowAt(e, e.buffer_idx_y - 1),
                             SubSeq(cur_word, 1, Len(cur_word) - 1))
         THEN end(up(e))
         ELSE IF ~IdxOk(e.buffer_idx_y, Len(e.buffer_list)) THEN Raise(e, "IndexError")
         ELSE IF \/ StartsWith(BufferRowAt(e, e.buffer_idx_y), cur_word)
                 \/ StartsWith(BufferRowAt(e, e.buffer_idx_y),
                               SubSeq(cur_word, 1, Len(cur_word) - 1))
         THEN [e EXCEPT !.cur_pos_x = Len(cur_word) + 1]
         ELSE e
    ELSE e

\* insert_char, lines 387-393: e is the Editor after the rewrap of line ln.
\* The spaces counted before the rewrap are appended to row r, then
\* buffer_set, right and word_wrap_jump.
insert_char_jump(e, ln, r, cur_word) ==
    IF e.exc # "" THEN e
    ELSE IF ~RowOk(e, ln, r) THEN Raise(e, "IndexError")
    ELSE word_wrap_jump(
            right(buffer_set(IF e.space_counter # 0
                             THEN [e EXCEPT !.text[ln + 1][r + 1] = @ \o Spaces(e.space_counter)]
                             ELSE e)),
            cur_word, get_cur_word(e, e.text[ln + 1][r + 1], TRUE))

\* insert_char, lines 383-386: e is the Editor after row r of line ln got the
\* character.  space_counter, the word at the cursor, the rewrap.
insert_char_wrap(e, ln, r) ==
    IF e.exc # "" THEN e
    ELSE insert_char_jump(
            Rewrap([e EXCEPT !.space_counter =
                       Len(e.text[ln + 1][r + 1]) - Len(RStrip(e.text[ln + 1][r + 1])) + 1],
                   ln),
            ln, r, get_cur_word(e, e.text[ln + 1][r + 1], TRUE))

\* insert_char, lines 379-382, for the entry ent of buffer_list at the cursor.
insert_char_row(e, ent, c) ==
    insert_char_wrap(SetRow(e, ent[1], ent[2], ListInsert(ent[3], e.buffer_idx_x, c)),
                     ent[1], ent[2])

\* insert_char(c) for a character c (a str): the int key codes return at once.
insert_char(e, c) ==
    IF e.exc # "" THEN e
    ELSE IF ~IdxOk(e.buffer_idx_y, Len(e.buffer_list)) THEN Raise(e, "IndexError")
    ELSE insert_char_row(e, e.buffer_list[Pos(e.buffer_idx_y, Len(e.buffer_list))], c)

\* insert_tab: tab_size = 4 calls of insert_char(" ").
insert_tab(e) == insert_char(insert_char(insert_char(insert_char(e, SP), SP), SP), SP)

\* insert_line_or_quit, lines 439-440: after the split and buffer_set, the
\* cursor goes to column 0, down.
insert_line_down(e) ==
    IF e.exc # "" THEN e ELSE down([e EXCEPT !.cur_pos_x = 0])

\* insert_line_or_quit, lines 427-438: row r of line ln is cut at the cursor;
\* the rows up to the cut stay, the rest becomes the next logical line.
insert_line_split(e, ln, r, row) ==
    IF e.text_tag # "list" THEN Raise(e, "TypeError")
    ELSE IF ln >= Len(e.text) THEN Raise(e, "IndexError")
    ELSE insert_line_down(buffer_set(
            [e EXCEPT !.text =
                Take(e.text, ln)
                \o << Append(Take(e.text[ln + 1], r), Take(row, e.cur_pos_x)),
                      <<Drop(row, e.cur_pos_x)>> \o Drop(e.text[ln + 1], r + 1) >>
                \o Drop(e.text, ln + 1)]))

\* insert_line_or_quit without lines 422-424: Enter never ends the session.
insert_line_never_quits(e) ==
    IF e.exc # "" THEN e
    ELSE IF e.num_rows = e.max_text_size THEN e
    ELSE IF ~IdxOk(e.buffer_idx_y, Len(e.buffer_list)) THEN Raise(e, "IndexError")
    ELSE insert_line_split(e, e.buffer_list[Pos(e.buffer_idx_y, Len(e.buffer_list))][1],
                           e.buffer_list[Pos(e.buffer_idx_y, Len(e.buffer_list))][2],
                           BufferRowAt(e, e.buffer_idx_y))

\* insert_line_or_quit without lines 425-426: the row cap is not looked at.
insert_line_ignores_cap(e) ==
    IF e.exc # "" THEN e
    ELSE IF e.max_text_size = 1 THEN [e EXCEPT !.ret = "False"]
    ELSE IF ~IdxOk(e.buffer_idx_y, Len(e.buffer_list)) THEN Raise(e, "IndexError")
    ELSE insert_line_split(e, e.buffer_list[Pos(e.buffer_idx_y, Len(e.buffer_list))][1],
                           e.buffer_list[Pos(e.buffer_idx_y, Len(e.buffer_list))][2],
                           BufferRowAt(e, e.buffer_idx_y))

insert_line_or_quit(e) ==
    IF e.exc # "" THEN e
    ELSE IF e.max_text_size = 1 THEN [e EXCEPT !.ret = "False"]
    ELSE IF e.num_rows = e.max_text_size THEN e
    ELSE IF ~IdxOk(e.buffer_idx_y, Len(e.buffer_list)) THEN Raise(e, "IndexError")
    ELSE insert_line_split(e, e.buffer_list[Pos(e.buffer_idx_y, Len(e.buffer_list))][1],
                           e.buffer_list[Pos(e.buffer_idx_y, Len(e.buffer_list))][2],
                           BufferRowAt(e, e.buffer_idx_y))

\* backspace, lines 482-487: e is the Editor after the rewrap of line ln.
\* The word at the cursor after the rewrap ("" on an IndexError),
\* buffer_set, word_wrap_jump.
backspace_jump(e, ln, r, cur_word) ==
    IF e.exc # "" THEN e
    ELSE word_wrap_jump(buffer_set(e), cur_word,
                        IF RowOk(e, ln, r) THEN get_cur_word(e, e.text[ln + 1][r + 1], FALSE)
                        ELSE <<>>)

\* backspace, lines 480-481: the word at the cursor, the rewrap of line ln.
backspace_rewrap(e, ln, r) ==
    IF e.exc # "" THEN e
    ELSE IF ~RowOk(e, ln, r) THEN Raise(e, RowExc(e))
    ELSE backspace_jump(Rewrap(e, ln), ln, r, get_cur_word(e, e.text[ln + 1][r + 1], FALSE))

\* line.extend(list(" " * (self.space_counter or 1)))
Extended(e, line) == line \o Spaces(IF e.space_counter # 0 THEN e.space_counter ELSE 1)

\* The branch of backspace for cur_pos_x > 0 (lines 448-458); on an
\* IndexError the row is extended by the missing whitespace.
backspace_char(e, ln, r, line) ==
    IF IdxOk(e.buffer_idx_x - 1, Len(line))
    THEN left(SetRow(e, ln, r, ListDel(line, e.buffer_idx_x - 1)))
    ELSE IF ~IdxOk(e.buffer_idx_x - 1, Len(Extended(e, line))) THEN Raise(e, "IndexError")
    ELSE left(SetRow([e EXCEPT !.space_counter = Max(0, e.space_counter - 1)], ln, r,
                     Or(ListDel(Extended(e, line), e.buffer_idx_x - 1), <<SP>>)))

\* backspace, lines 469-472 and 480-487: e is the Editor after the last
\* character of the previous row, in line ln0, was deleted.  Line ln is
\* appended to line ln0 when they differ.
backspace_join_extend(e, ln, r, ln0) ==
    IF e.exc # "" THEN e
    ELSE IF ln0 < ln
    THEN IF ln >= Len(e.text) THEN Raise(e, "IndexError")
         ELSE backspace_rewrap(
                 [e EXCEPT !.text =
                     [i \in 1..(Len(e.text) - 1) |->
                        IF i = ln0 + 1 THEN e.text[ln0 + 1] \o e.text[ln + 1]
                        ELSE IF i < ln + 1 THEN e.text[i] ELSE e.text[i + 1]]],
                 ln0, r)
    ELSE backspace_rewrap(e, ln0, r)

\* backspace, lines 465-475 and 480-487, for the entry ent0 of buffer_list at the cursor
\* after left(): a non-empty row loses its last character, an empty row has
\* its whole logical line deleted.
backspace_join_row(e, ln, r, ent0) ==
    IF ent0[3] # <<>>
    THEN backspace_join_extend(
            SetRow(e, ent0[1], ent0[2], SubSeq(ent0[3], 1, Len(ent0[3]) - 1)),
            ln, r, ent0[1])
    ELSE IF e.text_tag # "list" THEN Raise(e, "TypeError")
    ELSE IF ent0[1] >= Len(e.text) THEN Raise(e, "IndexError")
    ELSE backspace_rewrap([e EXCEPT !.text = Take(e.text, ent0[1]) \o Drop(e.text, ent0[1] + 1)],
                          ent0[1], r)

\* backspace, lines 464-465: e is the Editor after left().
backspace_join_prev(e, ln, r) ==
    IF e.exc # "" THEN e
    ELSE IF ~IdxOk(e.buffer_idx_y, Len(e.buffer_list))
    THEN Raise([e EXCEPT !.cur_pos_x = Max(0, e.cur_pos_x - 1)], "IndexError")
    ELSE backspace_join_row([e EXCEPT !.cur_pos_x = Max(0, e.cur_pos_x - 1)], ln, r,
                            e.buffer_list[Pos(e.buffer_idx_y, Len(e.buffer_list))])

\* The branch of backspace for cur_pos_x = 0 below the first row (lines
\* 459-475), with what follows it.
backspace_join(e, ln, r) == backspace_join_prev(left(e), ln, r)

\* backspace for the entry (ln, r, line) of buffer_list at the cursor.
backspace_row(e, ln, r, line) ==
    IF e.cur_pos_x > 0
    THEN backspace_rewrap(backspace_char(e, ln, r, line), ln, r)
    ELSE IF e.cur_pos_x = 0 /\ e.buffer_idx_y > 0
    THEN backspace_join(e, ln, r)
    ELSE IF e.cur_pos_x = 0 /\ e.buffer_idx_y = 0 /\ line = <<>>
    THEN \* del self.text[ln]; return
         IF e.text_tag # "list" THEN Raise(e, "TypeError")
         ELSE IF ln >= Len(e.text) THEN Raise(e, "IndexError")
         ELSE [e EXCEPT !.text = Take(e.text, ln) \o Drop(e.text, ln + 1)]
    ELSE backspace_rewrap(e, ln, r)

backspace(e) ==
    IF e.exc # "" THEN e
    ELSE IF ~IdxOk(e.buffer_idx_y, Len(e.buffer_list)) THEN Raise(e, "IndexError")
    ELSE backspace_row(e, e.buffer_list[Pos(e.buffer_idx_y, Len(e.buffer_list))][1],
                       e.buffer_list[Pos(e.buffer_idx_y, Len(e.buffer_list))][2],
                       BufferRowAt(e, e.buffer_idx_y))

\* del_char, line 498: e is the Editor after row r of line ln was written.
del_char_wrap(e, ln) == IF e.exc # "" THEN e ELSE Rewrap(e, ln)

\* del_char for the entry (ln, r, line) of buffer_list at the cursor.
del_char_row(e, ln, r, line) ==
    IF line # <<>> /\ e.cur_pos_x < Len(line)
    THEN IF ~IdxOk(e.buffer_idx_x, Len(line)) THEN Raise(e, "IndexError")
         ELSE del_char_wrap(SetRow(e, ln, r, ListDel(line, e.buffer_idx_x)), ln)
    ELSE del_char_wrap(SetRow(e, ln, r, line), ln)

del_char(e) ==
    IF e.exc # "" THEN e
    ELSE IF ~IdxOk(e.buffer_idx_y, Len(e.buffer_list)) THEN Raise(e, "IndexError")
    ELSE del_char_row(e, e.buffer_list[Pos(e.buffer_idx_y, Len(e.buffer_list))][1],
                      e.buffer_list[Pos(e.buffer_idx_y, Len(e.buffer_list))][2],
                      BufferRowAt(e, e.buffer_idx_y))

del_to_eol(e) ==
    IF e.exc # "" THEN e
    ELSE IF ~IdxOk(e.buffer_idx_y, Len(e.buffer_list)) THEN Raise(e, "IndexError")
    ELSE LET ent == e.buffer_list[Pos(e.buffer_idx_y, Len(e.buffer_list))]
         IN  SetRow(e, ent[1], ent[2], Take(ent[3], e.cur_pos_x))

\* A del_to_bol that leaves the column where it is.
del_to_bol_keeps_column(e) ==
    IF e.exc # "" THEN e
    ELSE IF ~IdxOk(e.buffer_idx_y, Len(e.buffer_list)) THEN Raise(e, "IndexError")
    ELSE LET ent == e.buffer_list[Pos(e.buffer_idx_y, Len(e.buffer_list))]
         IN  SetRow(e, ent[1], ent[2], Drop(ent[3], e.cur_pos_x))

del_to_bol(e) ==
    IF e.exc # "" THEN e
    ELSE IF ~IdxOk(e.buffer_idx_y, Len(e.buffer_list)) THEN Raise(e, "IndexError")
    ELSE LET ent == e.buffer_list[Pos(e.buffer_idx_y, Len(e.buffer_list))]
             e1 == SetRow(e, ent[1], ent[2], Drop(ent[3], e.cur_pos_x))
         IN  IF e1.exc # "" THEN e1 ELSE [e1 EXCEPT !.cur_pos_x = 0]

\* quit that discards the text, as quit_nosave does.
quit_discards(e) == [e EXCEPT !.text_tag = "False", !.ret = "False"]

quit(e) == [e EXCEPT !.ret = "False"]

quit_nosave(e) == [e EXCEPT !.text_tag = "False", !.ret = "False"]

\* "\n".join([" ".join(i) for i in text])
JoinText(text) == Join([i \in 1..Len(text) |-> Join(text[i], <<SP>>)], <<NL>>)

\* exit(): what the session returns for the current self.text.
exit(e) ==
    IF e.text_tag = "-1" THEN [kind |-> "-1", text |-> <<>>]
    ELSE IF e.text_tag = "False" THEN [kind |-> "False", text |-> <<>>]
    ELSE [kind |-> "text", text |-> JoinText(e.text)]

\* close(): self.text = -1; return self.exit()
close(e) == [e EXCEPT !.text_tag = "-1", !.ret = "-1"]

\* help(): the popup changes nothing the editing code reads; the finally
\* clause calls curses.curs_set(1) unless pw_mode is set (lines 564-565),
\* outside any try.
help(e) ==
    IF e.exc # "" THEN e
    ELSE IF ~e.pw_mode /\ ~e.curs_set THEN Raise(e, "error")
    ELSE e

\* win_init(): the cursor and the offsets are reset and the window size is
\* fitted to scr = self.scr.getmaxyx(); resize_flag is set by resize().
win_init(e, scr, resize_flag) ==
    LET y0 == IF resize_flag THEN e.win_size_y + 1 ELSE e.win_size_y
        x0 == IF resize_flag THEN e.win_size_x + 1 ELSE e.win_size_x
        max_win_size_y == Max(0, scr[1] - 4)
        max_win_size_x == Max(0, scr[2] - 3)
        y1 == IF y0 > max_win_size_y \/ y0 < e.win_size_orig_y THEN max_win_size_y ELSE y0
        x1 == IF x0 > max_win_size_x \/ x0 < e.win_size_orig_x THEN max_win_size_x ELSE x0
    IN  [e EXCEPT !.cur_pos_y = 0, !.cur_pos_x = 0, !.y_offset = 0,
                  !.buffer_idx_y = 0, !.buffer_idx_x = 0,
                  !.win_size_y = y1 - 1, !.win_size_x = x1 - 1]

\* text_init, lines 158-160: max_text_size grows to the rows of the text.
text_init_cap(e) ==
    IF e.exc # "" THEN e
    ELSE IF 0 < e.max_text_size /\ e.max_text_size < e.num_rows
    THEN [e EXCEPT !.max_text_size = e.num_rows]
    ELSE e

\* text_init for t = str(text).splitlines(True).
text_init_lines(e, t) ==
    IF e.x_scroll THEN text_init_cap(buffer_set([e EXCEPT !.text_tag = "list", !.text = <<t>>]))
    ELSE IF t # <<>> /\ e.win_size_x - 1 <= 0 THEN Raise(e, "ValueError")
    ELSE text_init_cap(buffer_set(
            [e EXCEPT !.text_tag = "list",
                      !.text = [i \in 1..Len(t) |->
                                  Or(Wrap(t[i], e.win_size_x - 1), << <<SP>> >>)]]))

\* text_init(text) for a string text.
text_init(e, text) ==
    IF e.exc # "" THEN e ELSE text_init_lines(e, SplitLines(text, <<>>))

\* resize() after its win_init: box_init, text_init of the text rejoined.
resize_text(e) ==
    IF e.text_tag # "list" THEN Raise(e, "TypeError")
    ELSE text_init(e, JoinText(e.text))

\* resize(): win_init with resize_flag set, then the rest.
resize(e, scr) ==
    IF e.exc # "" THEN e ELSE resize_text(win_init(e, scr, TRUE))

\* display(): every row of the window is drawn inside try/except, and the
\* except clause runs close().  Drawing a row uses self.boxscr (line 603),
\* an attribute win_init creates only for a box or a title.
display(e) ==
    IF e.exc # "" THEN e
    ELSE LET stop == e.y_offset + e.win_size_y
             s == PySlice(e.buffer_list, e.y_offset, IF stop = 0 THEN 1 ELSE stop)
         IN  IF s # <<>> /\ ~e.boxscr THEN [e EXCEPT !.text_tag = "-1"] ELSE e

\* display() when the curses calls that draw a row raise curses.error: the
\* except clause runs close() for every row of the window and drops what
\* close() returns.
display_error(e) ==
    IF e.exc # "" THEN e
    ELSE LET stop == e.y_offset + e.win_size_y
             s == PySlice(e.buffer_list, e.y_offset, IF stop = 0 THEN 1 ELSE stop)
         IN  IF s # <<>> THEN [close(e) EXCEPT !.ret = e.ret] ELSE e

\* display(): the row texts that it passes to stdscr.addstr (line 602), one
\* for each row of the window unless pw_mode is set.
Drawn(e) ==
    LET stop == e.y_offset + e.win_size_y
        s == PySlice(e.buffer_list, e.y_offset, IF stop = 0 THEN 1 ELSE stop)
    IN  IF e.pw_mode THEN <<>> ELSE [y \in 1..Len(s) |-> s[y][3]]

\* Editor.__init__ with the arguments inittext, win_size, max_text_size,
\* box/title (boxscr) and pw_mode, on a screen of size scr; curs_set tells
\* whether the terminal lets curses.curs_set change the cursor (it raises
\* curses.error where the terminal cannot, which lines 84-92 provide for).
EditorInitPw(inittext, win_size, max_text_size, boxscr, scr, pw_mode, curs_set) ==
    LET e0 == [text |-> <<>>, text_tag |-> "list",
               pw_mode |-> pw_mode, curs_set |-> curs_set,
               cur_pos_y |-> 0, cur_pos_x |-> 0, y_offset |-> 0,
               buffer_idx_y |-> 0, buffer_idx_x |-> 0,
               buffer_list |-> <<>>, buf_length |-> 0, num_rows |-> 0, max_cols |-> 0,
               space_counter |-> 0, max_text_size |-> max_text_size,
               win_size_y |-> win_size[1], win_size_x |-> win_size[2],
               win_size_orig_y |-> win_size[1], win_size_orig_x |-> win_size[2],
               x_scroll |-> (win_size[1] < 2 /\ max_text_size = 1),
               boxscr |-> boxscr, ret |-> "None", exc |-> ""]
    IN  display(text_init(win_init(e0, scr, FALSE),
                          IF inittext = <<>> THEN <<SP>> ELSE inittext))

\* Editor.__init__ with pw_mode left at its default, False, on a terminal
\* whose cursor curses.curs_set can change.
EditorInit(inittext, win_size, max_text_size, boxscr, scr) ==
    EditorInitPw(inittext, win_size, max_text_size, boxscr, scr, FALSE, TRUE)

(***************************************************************************)
(* Keys.  One key stands for every key bound to the same handler.          *)
(***************************************************************************)
Chars == {"a", SP}

\* run(): the rest of one pass of the loop, e being the Editor as the handler
\* that get_key() called left it: unless the handler returned False or -1,
\* buffer_set and display.
run_step(e) ==
    IF e.exc # "" \/ e.ret \in {"False", "-1"} THEN e
    ELSE display(buffer_set(e))

(***************************************************************************)
(* The session: an Editor is constructed and run() reads keys until a      *)
(* handler ends the loop (run returns exit()) or an exception that run()   *)
(* does not catch leaves it.                                               *)
(*   ed      the Editor object, with the value the last handler returned   *)
(*           (ed.ret) and the exception that left run() (ed.exc)           *)
(*   inittext  the text the Editor was constructed with                    *)
(***************************************************************************)
VARIABLES ed, inittext

vars == <<ed, inittext>>

\* Constructor arguments of the model: inittext, win_size, max_text_size and
\* whether a box or a title is asked for.
Configs ==
    { <<(<<>>), <<3, 4>>, 0, TRUE>>,
      <<(<<"a", "a", SP, "b">>), <<2, 4>>, 0, TRUE>>,
      <<(<<"a", NL, "b">>), <<3, 4>>, 2, TRUE>>,
      <<(<<"a", "b">>), <<3, 4>>, 2, TRUE>>,
      <<(<<"a", "b">>), <<1, 4>>, 1, TRUE>>,
      <<(<<"a", "b">>), <<3, 4>>, 1, TRUE>>,
      <<(<<"a">>), <<3, 4>>, 0, FALSE>> }

\* What self.scr.getmaxyx() returns: at construction, and after a resize.
ScrInit == <<7, 7>>
ScrSizes == {<<7, 7>>, <<6, 6>>}

Init ==
    \E cfg \in Configs :
        /\ inittext = cfg[1]
        /\ ed = EditorInit(cfg[1], cfg[2], cfg[3], cfg[4], ScrInit)

\* Where run() is: "loop" (waiting for a key), "returned" or "raised".
pc == IF ed.exc # "" THEN "raised"
      ELSE IF ed.ret \in {"False", "-1"} THEN "returned"
      ELSE "loop"

\* What run() returned; kind is "none" until it has.
result == IF pc = "returned" THEN exit(ed) ELSE [kind |-> "none", text |-> <<>>]

\* The number of characters of the document, separators included.
DocSize == Len(JoinText(ed.text))

\* run(): one pass of the loop; e is the Editor after the handler that
\* get_key() looked up in self.keys for the key read.
Dispatch(e) ==
    /\ pc = "loop"
    /\ ed' = run_step(e)
    /\ UNCHANGED inittext

\* keys_init(): the handler of each key; any other key is inserted.
TypeChar == DocSize < MaxChars /\ \E c \in Chars : Dispatch(insert_char(ed, c))
Tab == DocSize < MaxTabChars /\ Dispatch(insert_tab(ed))
Enter == DocSize < MaxChars /\ Dispatch(insert_line_or_quit(ed))
Backspace == Dispatch(backspace(ed))
Delete == Dispatch(del_char(ed))
DelToEol == Dispatch(del_to_eol(ed))
DelToBol == Dispatch(del_to_bol(ed))
Left == Dispatch(left(ed))
Right == Dispatch(right(ed))
Up == Dispatch(up(ed))
Down == Dispatch(down(ed))
Home == Dispatch(home(ed))
End == Dispatch(end(ed))
PageUp == Dispatch(page_up(ed))
PageDown == Dispatch(page_down(ed))
Help == Dispatch(help(ed))
Resize == \E scr \in ScrSizes : Dispatch(resize(ed, scr))
Save == Dispatch(quit(ed))
Cancel == Dispatch(quit_nosave(ed))
Abort == Dispatch(close(ed))

\* get_key() when get_wch() raises KeyboardInterrupt: the handler of the
\* exception runs close(), and the lookup self.keys[c] that follows finds c
\* unbound, which neither get_key() nor run() catches; what close() returns
\* is dropped.
get_key_interrupt(e) ==
    IF e.exc # "" THEN e
    ELSE Raise([close(e) EXCEPT !.ret = e.ret], "UnboundLocalError")

\* run(): the pass of the loop in which the read of the key is interrupted.
Interrupt ==
    /\ pc = "loop"
    /\ ed' = get_key_interrupt(ed)
    /\ UNCHANGED inittext

Next ==
    \/ TypeChar \/ Tab \/ Enter \/ Backspace \/ Delete \/ DelToEol \/ DelToBol
    \/ Left \/ Right \/ Up \/ Down \/ Home \/ End \/ PageUp \/ PageDown
    \/ Help \/ Resize \/ Save \/ Cancel \/ Abort \/ Interrupt

Spec == Init /\ [][Next]_vars

(***************************************************************************)
(* Sessions of navigation and edit keys only.                              *)
(***************************************************************************)
NextNavEdit ==
    \/ TypeChar \/ Tab \/ Enter \/ Backspace \/ Delete \/ DelToEol \/ DelToBol
    \/ Left \/ Right \/ Up \/ Down \/ Home \/ End \/ PageUp \/ PageDown

SpecNavEdit == Init /\ [][NextNavEdit]_vars

(***************************************************************************)
(* Sessions without edits: the Editor is constructed with any text of at   *)
(* most MaxInitLen characters and the save key is pressed at once.         *)
(***************************************************************************)
InitChars == {"a", SP, NL}
InitTexts == UNION {[1..k -> InitChars] : k \in 0..MaxInitLen}

\* win_size and max_text_size; on a screen of ScrRoundTrip the first wraps at
\* width 3 and the second at width 2.
ConfigsRoundTrip == { <<(<<3, 5>>), 0>>, <<(<<3, 4>>), 2>> }
ScrRoundTrip == <<8, 8>>

InitRoundTrip ==
    \E t \in InitTexts, cfg \in ConfigsRoundTrip :
        /\ inittext = t
        /\ ed = EditorInit(t, cfg[1], cfg[2], TRUE, ScrRoundTrip)

NextRoundTrip == Save

SpecRoundTrip == InitRoundTrip /\ [][NextRoundTrip]_vars

(***************************************************************************)
(* Sessions with pw_mode: a password field of one row, on a terminal whose *)
(* cursor curses.curs_set can change and on one where it cannot, and every *)
(* key.                                                                    *)
(***************************************************************************)
\* inittext, win_size and max_text_size.
ConfigsMasked == { <<(<<"a", "b">>), <<1, 4>>, 1>> }

InitMasked ==
    \E cfg \in ConfigsMasked, curs_set \in BOOLEAN :
        /\ inittext = cfg[1]
        /\ ed = EditorInitPw(cfg[1], cfg[2], cfg[3], TRUE, ScrInit, TRUE, curs_set)

SpecMasked == InitMasked /\ [][Next]_vars

(***************************************************************************)
(* Properties.                                                             *)
(***************************************************************************)
\* The session is in Editing: run() is waiting for a key and no close() or
\* quit_nosave() has replaced self.text.
Editing == pc = "loop" /\ ed.text_tag = "list"

\* The wrapped rows of the document, in document order.
TotalRows == Len(BufferEntries(ed.text))
\* The buffer row the cursor addresses, and that row's text.
BufferRow == ed.y_offset + ed.cur_pos_y
CurrentRow == BufferEntries(ed.text)[BufferRow + 1][3]

\* C1 (cursor bound invariant): in every Editing state reached by navigation
\* and edit keys, the buffer row index (scroll offset + screen row) is at
\* least 0 and below the number of rows, and the column is at least 0 and at
\* most the length of the addressed row.
CursorBound ==
    Editing =>
        /\ 0 <= BufferRow
        /\ BufferRow < TotalRows
        /\ 0 <= ed.cur_pos_x
        /\ ed.cur_pos_x <= Len(CurrentRow)

\* C2 (document non-emptiness): while the session is in Editing the document
\* has at least one logical line and every logical line has at least one row.
DocumentNonEmpty ==
    Editing =>
        /\ Len(ed.text) >= 1
        /\ \A ln \in 1..Len(ed.text) : Len(ed.text[ln]) >= 1

\* The cursor is where C1 says it is.
CursorInBounds ==
    /\ 0 <= BufferRow
    /\ BufferRow < TotalRows
    /\ 0 <= ed.cur_pos_x
    /\ ed.cur_pos_x <= Len(CurrentRow)

\* The number of characters of the saved text that precede row n + 1 of rows.
RECURSIVE OffsetOfRow(_, _)
OffsetOfRow(rows, n) ==
    IF n = 0 THEN 0 ELSE OffsetOfRow(rows, n - 1) + Len(rows[n][3]) + 1

\* The position of the cursor in the text that save would return.
CursorIndex == OffsetOfRow(BufferEntries(ed.text), BufferRow) + ed.cur_pos_x

\* e, the Editor after a key, continues and would save the text that save
\* would have returned before the key with c inserted at the cursor.
OnlyInserted(e, c) ==
    e.exc = "" => JoinText(e.text) = ListInsert(JoinText(ed.text), CursorIndex, c)

\* C3 (space-preservation on insert): in every Editing state with the cursor
\* inside the document, typing a character c changes the text that save
\* would return by exactly the insertion of c at the cursor position.
SpacePreservedOnInsert ==
    (Editing /\ CursorInBounds) =>
        \A c \in Chars : OnlyInserted(run_step(insert_char(ed, c)), c)

\* No maximal run of non-whitespace characters of t is longer than w.
NoLongWord(t, w) ==
    \A i \in 1..(Len(t) - w) : \E j \in i..(i + w) : IsSpace(t[j])

\* C4 (round-trip without edits): when the Editor is constructed with a text
\* none of whose words is longer than the wrap width and the save key is the
\* first key, run() returns exactly that text.
RoundTrip ==
    (pc = "returned" /\ NoLongWord(inittext, ed.win_size_x - 1)) =>
        result = [kind |-> "text", text |-> inittext]

\* e, the Editor after some keys, continues with the document, the cursor
\* and the scroll offset of the current state.
Restored(e) ==
    /\ e.exc = "" /\ e.ret = "None" /\ e.text_tag = "list"
    /\ e.text = ed.text
    /\ e.cur_pos_y = ed.cur_pos_y
    /\ e.cur_pos_x = ed.cur_pos_x
    /\ e.y_offset = ed.y_offset

\* C5 (backspace/insert inverse): in every Editing state with the cursor
\* strictly inside its row, typing a character and then pressing backspace
\* restores the document, the cursor and the scroll offset.
InsertBackspaceInverse ==
    (Editing /\ CursorInBounds /\ 0 < ed.cur_pos_x /\ ed.cur_pos_x < Len(CurrentRow)) =>
        \A c \in Chars : Restored(run_step(backspace(run_step(insert_char(ed, c)))))

\* The logical line the cursor is in (0-based, as in buffer_list).
CurrentLine == BufferEntries(ed.text)[BufferRow + 1][1]

\* Enter can split: the Editor is not limited to one row and the rows of the
\* document are fewer than the row cap, if there is one.
CanSplit ==
    /\ ed.max_text_size # 1
    /\ ed.max_text_size = 0 \/ TotalRows < ed.max_text_size

\* C6 (join/split inverse): in every Editing state where Enter can split and
\* the cursor is in a logical line of a single row, Enter followed by
\* backspace restores the document and the cursor.
JoinSplitInverse ==
    (Editing /\ CursorInBounds /\ CanSplit /\ Len(ed.text[CurrentLine + 1]) = 1) =>
        Restored(run_step(backspace(run_step(insert_line_or_quit(ed)))))

\* e, the Editor after a key, has ended run() by returning the value ret, and
\* run() returns res.
Ended(e, ret, res) == e.exc = "" /\ e.ret = ret /\ exit(e) = res

\* C7 (session result by terminating key): from every Editing state the save
\* key ends run() with the text of the document (rows joined by spaces,
\* lines by newlines), the cancel key with False and the abort key with -1;
\* the three results differ; and once run() has ended no key is processed.
SessionResult ==
    /\ Editing =>
          /\ Ended(run_step(quit(ed)), "False",
                       [kind |-> "text", text |-> JoinText(ed.text)])
          /\ Ended(run_step(quit_nosave(ed)), "False", [kind |-> "False", text |-> <<>>])
          /\ Ended(run_step(close(ed)), "-1", [kind |-> "-1", text |-> <<>>])
          /\ exit(run_step(quit(ed))) # exit(run_step(quit_nosave(ed)))
          /\ exit(run_step(quit(ed))) # exit(run_step(close(ed)))
          /\ exit(run_step(quit_nosave(ed))) # exit(run_step(close(ed)))
    /\ pc # "loop" => ~ENABLED Next

\* run() has returned the text of a document that keys have changed.
SavedAfterEdits ==
    /\ pc = "returned"
    /\ result.kind = "text"
    /\ Len(result.text) >= 2
    /\ result.text # inittext

RowCapBlocksSplit ==
    (Editing /\ ed.max_text_size > 1 /\ TotalRows = ed.max_text_size) =>
        Restored(run_step(insert_line_or_quit(ed)))

\* Enter is pressed inside a row of a document that fills its row cap of
\* more than one row, and changes nothing.
EnterAtRowCap ==
    /\ Editing
    /\ ed.max_text_size > 1
    /\ TotalRows = ed.max_text_size
    /\ ed.cur_pos_x > 0
    /\ Restored(run_step(insert_line_or_quit(ed)))

\* C10 (row cap is a maximum): in every Editing state reached by navigation
\* and edit keys, when there is a row cap the document has at most that many
\* rows.
RowCapMaximum ==
    (Editing /\ ed.max_text_size # 0) => TotalRows <= ed.max_text_size

\* C11 (edits are all-or-abort): no navigation or edit key pressed in an
\* Editing state ends run() with an exception that run() does not catch;
\* after every such key run() either waits for the next key or has returned.
NoUnhandledError == [][Editing => pc' # "raised"]_vars

\* C12 (interrupt while waiting for input): from every Editing state, a
\* keyboard interrupt delivered while get_key() reads the next key ends
\* run(), which returns -1.
InterruptAborts ==
    Editing => Ended(get_key_interrupt(ed), "-1", [kind |-> "-1", text |-> <<>>])

\* e, the Editor after a redraw, once the cancel key has been pressed if
\* run() still reads keys.
CancelAfter(e) ==
    IF e.exc # "" \/ e.ret \in {"False", "-1"} THEN e ELSE run_step(quit_nosave(e))

\* C13 (draw failure aborts immediately): from every Editing state, when
\* drawing a row fails in the redraw that follows a key, run() ends at once
\* and returns -1, and the cancel key cannot make it return anything else.
DrawFailureAborts ==
    Editing =>
        /\ Ended(display_error(buffer_set(help(ed))), "-1", [kind |-> "-1", text |-> <<>>])
        /\ exit(CancelAfter(display_error(buffer_set(help(ed))))).kind = "-1"

\* The Editor e with pw_mode flipped.
Twin(e) == [e EXCEPT !.pw_mode = ~e.pw_mode]

\* The handler H leaves the Editor of the current state and its twin in
\* states that differ in pw_mode only.
Commutes(H(_)) == Twin(run_step(H(ed))) = run_step(H(Twin(ed)))

\* C14 (masked mode does not affect the buffer): in every state of a session
\* with pw_mode the redraw passes no row text to stdscr.addstr; the
\* constructor with pw_mode and the constructor without it give Editors that
\* differ in that flag only; and every key leaves two Editors that differ in
\* that flag only in states that again differ in that flag only, so that
\* document, cursor, scroll offset and result of run() are the same.
MaskedSameBuffer ==
    /\ ed.pw_mode => Drawn(ed) = <<>>
    /\ \A cfg \in ConfigsMasked, curs_set \in BOOLEAN :
          Twin(EditorInitPw(cfg[1], cfg[2], cfg[3], TRUE, ScrInit, TRUE, curs_set))
              = EditorInitPw(cfg[1], cfg[2], cfg[3], TRUE, ScrInit, FALSE, curs_set)
    /\ pc = "loop" =>
          /\ \A c \in Chars : Commutes(LAMBDA e : insert_char(e, c))
          /\ \A scr \in ScrSizes : Commutes(LAMBDA e : resize(e, scr))
          /\ Commutes(insert_tab) /\ Commutes(insert_line_or_quit)
          /\ Commutes(backspace) /\ Commutes(del_char)
          /\ Commutes(del_to_eol) /\ Commutes(del_to_bol)
          /\ Commutes(left) /\ Commutes(right) /\ Commutes(up) /\ Commutes(down)
          /\ Commutes(home) /\ Commutes(end)
          /\ Commutes(page_up) /\ Commutes(page_down)
          /\ Commutes(help) /\ Commutes(quit) /\ Commutes(quit_nosave)
          /\ Commutes(close)
          /\ Twin(get_key_interrupt(ed)) = get_key_interrupt(Twin(ed))

\* C15 (rows fit the viewport): in every Editing state of an Editor that
\* wraps (x_scroll is off), every row of every logical line is at most
\* win_size_x - 1 characters long, the width text_init wraps at.
RowsFitViewport ==
    (Editing /\ ~ed.x_scroll) =>
        \A ln \in 1..Len(ed.text) : \A r \in 1..Len(ed.text[ln]) :
            Len(ed.text[ln][r]) <= ed.win_size_x - 1

\* C16 (rewrap idempotence): in every Editing state, rewrapping any logical
\* line of the document at the width of the window, as del_char, backspace
\* and insert_char do, leaves the rows of the document as they are.
RewrapIdempotent ==
    Editing =>
        \A ln \in 0..(Len(ed.text) - 1) :
            /\ Rewrap(ed, ln).exc = ""
            /\ Rewrap(ed, ln).text = ed.text

\* e, the Editor after a key, continues with the document unchanged and the
\* cursor at column x of buffer row row.
CursorAt(e, row, x) ==
    /\ e.exc = "" /\ e.ret = "None" /\ e.text = ed.text
    /\ e.y_offset + e.cur_pos_y = row
    /\ e.cur_pos_x = x

\* The text of buffer row row (0-based) of the document.
RowText(row) == BufferEntries(ed.text)[row + 1][3]

\* C17 (left/right across row boundaries): in every Editing state with the
\* cursor inside the document, left at column 0 of a buffer row that is not
\* the first moves the cursor to the end of the previous buffer row, and
\* left elsewhere in a row moves it one column back; right at the end of a
\* buffer row that is not the last moves it to column 0 of the next buffer
\* row, and right elsewhere in a row moves it one column forward.
LeftRightAcrossRows ==
    (Editing /\ CursorInBounds) =>
        /\ (ed.cur_pos_x = 0 /\ BufferRow > 0) =>
              CursorAt(run_step(left(ed)), BufferRow - 1, Len(RowText(BufferRow - 1)))
        /\ ed.cur_pos_x > 0 =>
              CursorAt(run_step(left(ed)), BufferRow, ed.cur_pos_x - 1)
        /\ (ed.cur_pos_x = Len(CurrentRow) /\ BufferRow < TotalRows - 1) =>
              CursorAt(run_step(right(ed)), BufferRow + 1, 0)
        /\ ed.cur_pos_x < Len(CurrentRow) =>
              CursorAt(run_step(right(ed)), BufferRow, ed.cur_pos_x + 1)

\* e, the Editor after a key, has its scroll offset between 0 and the number
\* of rows less the height of the window (or 0), and its screen row inside
\* the window.
ScrollInBounds(e) ==
    /\ 0 <= e.y_offset
    /\ e.y_offset <= Max(0, Len(BufferEntries(e.text)) - e.win_size_y)
    /\ 0 <= e.cur_pos_y
    /\ e.cur_pos_y < e.win_size_y

\* C18 (vertical scroll bound): in every Editing state of a window of at
\* least one row with the cursor inside the document, after up, down, page
\* up or page down the scroll offset is at least 0 and at most
\* max(0, rows - window height), and the screen row is at least 0 and below
\* the window height.
VerticalScrollBound ==
    (Editing /\ ed.win_size_y >= 1 /\ CursorInBounds) =>
        /\ run_step(up(ed)).exc = "" => ScrollInBounds(run_step(up(ed)))
        /\ run_step(down(ed)).exc = "" => ScrollInBounds(run_step(down(ed)))
        /\ run_step(page_up(ed)).exc = "" => ScrollInBounds(run_step(page_up(ed)))
        /\ run_step(page_down(ed)).exc = "" => ScrollInBounds(run_step(page_down(ed)))

\* e, the Editor after a page key, continues with the scroll offset off and
\* with the column of the current state clamped to the length of the buffer
\* row it now addresses.
PagedTo(e, off) ==
    /\ e.exc = "" /\ e.ret = "None" /\ e.text = ed.text
    /\ e.y_offset = off
    /\ e.y_offset + e.cur_pos_y < TotalRows
    /\ e.y_offset + e.cur_pos_y >= 0
    /\ e.cur_pos_x = Min(ed.cur_pos_x, Len(RowText(e.y_offset + e.cur_pos_y)))

\* C19 (page scrolling amount): in every Editing state of a window of at
\* least one row with the cursor inside the document, page down sets the
\* scroll offset to min(offset + height, max(0, rows - height)) and never
\* lowers it, page up sets it to max(0, offset - height) and never raises it,
\* and both clamp the column to the length of the row then addressed.
PageScrollAmount ==
    (Editing /\ ed.win_size_y >= 1 /\ CursorInBounds) =>
        /\ PagedTo(run_step(page_down(ed)),
                   Min(ed.y_offset + ed.win_size_y, Max(0, TotalRows - ed.win_size_y)))
        /\ run_step(page_down(ed)).y_offset >= ed.y_offset
        /\ PagedTo(run_step(page_up(ed)), Max(0, ed.y_offset - ed.win_size_y))
        /\ run_step(page_up(ed)).y_offset <= ed.y_offset

\* C20 (wrapping and horizontal scroll are mutually exclusive): in every
\* Editing state of an Editor constructed with x_scroll on, reached by
\* navigation and edit keys, the document is one logical line of one row.
XScrollNeverWraps ==
    (Editing /\ ed.x_scroll) =>
        /\ Len(ed.text) = 1
        /\ Len(ed.text[1]) = 1

\* C21 (the buffer index is never stale between keys): in every Editing
\* state, where run() is about to read a key, buffer_list holds the rows of
\* the document in document order, each with the index of its logical line
\* and its index in that line, and num_rows is the length of buffer_list.
BufferIndexFresh ==
    Editing =>
        /\ ed.buffer_list = BufferEntries(ed.text)
        /\ ed.num_rows = Len(ed.buffer_list)

\* The index of the cursor's row in its logical line (0-based).
CurrentRowIdx == BufferEntries(ed.text)[BufferRow + 1][2]

\* e, the Editor after some keys, continues on the same screen row and
\* scroll offset with the column at 0, the cursor's row empty and every
\* other row of the document as in the current state.
RowEmptied(e) ==
    /\ e.exc = "" /\ e.ret = "None" /\ e.text_tag = "list"
    /\ e.text = [ed.text EXCEPT ![CurrentLine + 1][CurrentRowIdx + 1] = <<>>]
    /\ e.cur_pos_x = 0
    /\ e.cur_pos_y = ed.cur_pos_y
    /\ e.y_offset = ed.y_offset

\* C22 (delete to end of line, then to start of line, empties the row): in
\* every Editing state with the cursor on a row of the document, Ctrl-k
\* followed by Ctrl-u leaves that row empty, the column at 0 and every other
\* row unchanged.
DelToEolThenBolEmptiesRow ==
    (Editing /\ 0 <= BufferRow /\ BufferRow < TotalRows) =>
        RowEmptied(run_step(del_to_bol(run_step(del_to_eol(ed)))))

\* Ctrl-k and Ctrl-u with the cursor strictly inside a row, in a document of
\* several rows that keys have changed, empty that row only.
RowEmptiedInsideDocument ==
    /\ Editing
    /\ TotalRows >= 2
    /\ JoinText(ed.text) # inittext
    /\ 0 <= BufferRow /\ BufferRow < TotalRows
    /\ 0 < ed.cur_pos_x /\ ed.cur_pos_x < Len(CurrentRow)
    /\ RowEmptied(run_step(del_to_bol(run_step(del_to_eol(ed)))))

\* The characters of t that are not whitespace, in order.
NonSpace(t) == SelectSeq(t, LAMBDA c : ~IsSpace(c))

\* e, the Editor after backspace, continues with every character of the
\* document that is not whitespace kept, in the same order, and with the
\* cursor on buffer row row at column x.
JoinedAt(e, row, x) ==
    /\ e.exc = "" /\ e.ret = "None" /\ e.text_tag = "list"
    /\ NonSpace(JoinText(e.text)) = NonSpace(JoinText(ed.text))
    /\ e.y_offset + e.cur_pos_y = row
    /\ e.cur_pos_x = x

\* C23 (backspace at column 0 only joins): in every Editing state with the
\* cursor at column 0 of a buffer row that is not the first, that row and
\* the row before it both non-empty, backspace deletes no character of
\* either row and leaves the cursor at the former end of the previous row.
BackspaceOnlyJoins ==
    (/\ Editing /\ CursorInBounds
     /\ ed.cur_pos_x = 0 /\ BufferRow > 0
     /\ CurrentRow # <<>> /\ RowText(BufferRow - 1) # <<>>) =>
        JoinedAt(run_step(backspace(ed)), BufferRow - 1, Len(RowText(BufferRow - 1)))

\* e, the Editor after a resize, continues with the text that save would
\* have returned before it and with the cursor and the scroll offset at the
\* origin.
SameTextAtOrigin(e) ==
    /\ e.exc = "" /\ e.ret = "None" /\ e.text_tag = "list"
    /\ JoinText(e.text) = JoinText(ed.text)
    /\ e.cur_pos_y = 0 /\ e.cur_pos_x = 0 /\ e.y_offset = 0

\* C24 (resize preserves the text): in every Editing state, a resize to any
\* screen size, the present one included, leaves the text that save would
\* return unchanged and puts the cursor and the scroll offset at the origin.
ResizePreservesText ==
    Editing => \A scr \in ScrSizes : SameTextAtOrigin(run_step(resize(ed, scr)))

====
